---- MODULE Spec2Model ----
(***************************************************************************)
(* Model of sd-bus-client.c: a D-Bus client that asks the random-number    *)
(* service for `iterations` batches of `num_bytes` octets, either one      *)
(* blocking call after another (concurrent = 1) or as a pipeline of at     *)
(* most `concurrent` asynchronous calls driven by sd_bus_process and       *)
(* sd_bus_wait.                                                            *)
(*                                                                         *)
(* libsystemd is the environment.  A submitted call is `pending` until the *)
(* bus has its outcome (a reply, an error reply or an expired timeout),    *)
(* then `ready` until one sd_bus_process call dispatches it to             *)
(* async_callback.  sd_bus_process handles one unit of work per call and   *)
(* returns 0 only when it found nothing to do; sd_bus_wait returns once    *)
(* there is something to process.  `other` counts bus work that is not a   *)
(* method reply (signals, queued writes): processing it returns > 0        *)
(* without running a callback.                                             *)
(***************************************************************************)
EXTENDS Integers, FiniteSets, Sequences, TLC

\* Bounds of the model
MaxIterations == 3
MaxConcurrent == 3
MaxBytes == 2
MaxOther == 1

\* stdlib.h / errno.h values used by main
EXIT_SUCCESS == 0
EXIT_FAILURE == 1
ENOMEM == 12

\* Return values of the sd-bus functions: negative errno on failure,
\* a non-negative integer on success.
ErrRets == {-1}
OkRets == {0, 1}

\* status values a reply can carry (0 is success)
Statuses == {0, 1}

\* What the bus hands to the caller for one method call.
\*   "error"   the call failed: error reply, transport error or timeout
\*   "badmsg"  a reply whose status field cannot be read
\*   "noarray" a reply whose octet array cannot be read
\*   "reply"   a well-formed reply (status, len octets)
Outcomes ==
    {[kind |-> "error", status |-> 0, len |-> 0],
     [kind |-> "badmsg", status |-> 0, len |-> 0]}
    \cup {[kind |-> "noarray", status |-> s, len |-> 0] : s \in Statuses}
    \cup {[kind |-> "reply", status |-> s, len |-> n] :
              s \in Statuses, n \in 0..MaxBytes}

NoOutcome == [kind |-> "none", status |-> 0, len |-> 0]
NoReport == [stream |-> "none", msg |-> "none", n |-> 0]
NoEvent == [id |-> 0, outcome |-> NoOutcome, report |-> NoReport]

VARIABLES
    iterations,          \* -n
    num_bytes,           \* -b
    concurrent,          \* -c
    log_to_stdout,       \* -l / -q
    pc,                  \* position of main
    ret,                 \* main's ret
    i,                   \* index of the sequential loop
    requests_sent,
    in_flight,
    completed_requests,
    failed_requests,
    heap,                \* live request_context_t objects, by request_id
    pending,             \* submitted calls the bus has no outcome for yet
    ready,               \* calls whose outcome waits to be dispatched
    other,               \* bus work that is not a method reply
    exit_code,           \* value returned by main (-1 while running)
    ev,                  \* the callback invocation of the latest step
    fired,               \* per request: number of async_callback invocations
    freed,               \* per request: number of free(ctx)
    nbad,                \* number of calls whose outcome was a failure
    mismatch,            \* a reply of the wrong length was received
    fatal,               \* the error that aborted the run: "none",
                         \* "connect", "nomem", "submit", "process", "wait"
    sync_calls,          \* number of sd_bus_call_method calls issued
    submit_log,          \* request_id of every submitted call, in order
    result,              \* per request: "none", or "ok" / "bad" by the
                         \* outcome its callback was given
    reordered            \* a callback ran while a call submitted earlier
                         \* was still outstanding

vars == <<iterations, num_bytes, concurrent, log_to_stdout, pc, ret, i,
          requests_sent, in_flight, completed_requests, failed_requests,
          heap, pending, ready, other, exit_code, ev, fired, freed, nbad,
          mismatch, fatal, sync_calls, submit_log, result, reordered>>

params == <<iterations, num_bytes, concurrent, log_to_stdout>>
counters == <<completed_requests, failed_requests>>
loopvars == <<requests_sent, in_flight>>
busvars == <<pending, ready, other>>
ghost == <<fired, freed, nbad, mismatch, fatal>>
trace == <<sync_calls, submit_log, result, reordered>>

Ids == 1..MaxIterations

----------------------------------------------------------------------------
\* The outcome is a failure of the request: anything but status 0 with
\* exactly the requested number of octets.
IsFailure(o, expected) ==
    \/ o.kind # "reply"
    \/ o.status # 0
    \/ o.len # expected

\* The outcome is a reply whose payload has not the requested length
WrongLength(o, expected) == o.kind = "reply" /\ o.len # expected

\* NewCtx that numbers the descriptor requests_sent instead of
\* requests_sent + 1
NewCtx_zero(id) ==
    [request_id |-> id - 1,
     expected_bytes |-> num_bytes,
     log_to_stdout |-> log_to_stdout,
     total_iterations |-> iterations]

\* request_context_t filled in by main for request number id
NewCtx(id) ==
    [request_id |-> id,
     expected_bytes |-> num_bytes,
     log_to_stdout |-> log_to_stdout,
     total_iterations |-> iterations]

\* print_octets that ignores should_log
print_octets_always(len, should_log) ==
    [stream |-> "stdout", msg |-> "octets", n |-> len]

\* print_octets: nothing unless should_log
print_octets(len, should_log) ==
    IF should_log = 0 THEN NoReport
    ELSE [stream |-> "stdout", msg |-> "octets", n |-> len]

\* async_callback without the status check: a reply with a non-zero status
\* and the expected length counts as completed
async_callback_nostatus(o, ctx) ==
    IF o.kind # "reply" \/ o.len # ctx.expected_bytes THEN
        [failed |-> 1, completed |-> 0, free |-> 1,
         report |-> [stream |-> "stderr", msg |-> "call_failed", n |-> 0]]
    ELSE
        [failed |-> 0, completed |-> 1, free |-> 1,
         report |-> [stream |-> "stdout", msg |-> "received", n |-> o.len]]

\* async_callback without the length check: a short reply counts as completed
async_callback_nolen(o, ctx) ==
    IF o.kind # "reply" \/ o.status # 0 THEN
        [failed |-> 1, completed |-> 0, free |-> 1,
         report |-> [stream |-> "stderr", msg |-> "call_failed", n |-> 0]]
    ELSE
        [failed |-> 0, completed |-> 1, free |-> 1,
         report |-> [stream |-> "stdout", msg |-> "received", n |-> o.len]]

\* async_callback: the effect of one invocation on the counters and on the
\* descriptor, and what it prints.
async_callback(o, ctx) ==
    IF o.kind = "error" THEN
        [failed |-> 1, completed |-> 0, free |-> 1,
         report |-> [stream |-> "stderr", msg |-> "call_failed", n |-> 0]]
    ELSE IF o.kind = "badmsg" THEN
        [failed |-> 1, completed |-> 0, free |-> 1,
         report |-> [stream |-> "stderr", msg |-> "parse_failed", n |-> 0]]
    ELSE IF o.status # 0 THEN
        [failed |-> 1, completed |-> 0, free |-> 1,
         report |-> [stream |-> "stderr", msg |-> "error_status",
                     n |-> o.status]]
    ELSE IF o.kind = "noarray" THEN
        [failed |-> 1, completed |-> 0, free |-> 1,
         report |-> [stream |-> "stderr", msg |-> "array_failed", n |-> 0]]
    ELSE IF o.len # ctx.expected_bytes THEN
        [failed |-> 1, completed |-> 0, free |-> 1,
         report |-> [stream |-> "stderr", msg |-> "size_mismatch",
                     n |-> o.len]]
    ELSE
        [failed |-> 0, completed |-> 1, free |-> 1,
         report |-> IF ctx.total_iterations = 1
                    THEN print_octets(o.len, ctx.log_to_stdout)
                    ELSE IF ctx.log_to_stdout # 0
                    THEN [stream |-> "stdout", msg |-> "received",
                          n |-> o.len]
                    ELSE NoReport]

\* return ret < 0 ? EXIT_FAILURE : EXIT_SUCCESS
ExitCode(r) == IF r < 0 THEN EXIT_FAILURE ELSE EXIT_SUCCESS

----------------------------------------------------------------------------
Init ==
    /\ iterations \in 1..MaxIterations
    /\ num_bytes \in 1..MaxBytes
    /\ concurrent \in 1..MaxConcurrent
    /\ log_to_stdout \in {0, 1}
    /\ pc = "open"
    /\ ret = 0
    /\ i = 0
    /\ requests_sent = 0
    /\ in_flight = 0
    /\ completed_requests = 0
    /\ failed_requests = 0
    /\ heap = [k \in {} |-> NewCtx(k)]
    /\ pending = {}
    /\ ready = {}
    /\ other \in 0..MaxOther
    /\ exit_code = -1
    /\ ev = NoEvent
    /\ fired = [k \in Ids |-> 0]
    /\ freed = [k \in Ids |-> 0]
    /\ nbad = 0
    /\ mismatch = FALSE
    /\ fatal = "none"
    /\ sync_calls = 0
    /\ submit_log = << >>
    /\ result = [k \in Ids |-> "none"]
    /\ reordered = FALSE

\* ConnectFail without the goto: main goes on to its loop
ConnectFail_goeson ==
    /\ pc = "open"
    /\ ret' \in ErrRets
    /\ pc' = IF concurrent = 1 THEN "seq" ELSE "outer"
    /\ fatal' = "connect"
    /\ ev' = NoEvent
    /\ UNCHANGED <<params, i, loopvars, counters, heap, busvars, exit_code,
                   fired, freed, nbad, mismatch, trace>>

\* sd_bus_open_user fails: goto cleanup
ConnectFail ==
    /\ pc = "open"
    /\ ret' \in ErrRets
    /\ pc' = "cleanup"
    /\ fatal' = "connect"
    /\ ev' = NoEvent
    /\ UNCHANGED <<params, i, loopvars, counters, heap, busvars, exit_code,
                   fired, freed, nbad, mismatch, trace>>

\* Connect that takes the asynchronous path whatever concurrent is
Connect_async ==
    /\ pc = "open"
    /\ ret' \in OkRets
    /\ completed_requests' = 0
    /\ failed_requests' = 0
    /\ pc' = "outer"
    /\ ev' = NoEvent
    /\ UNCHANGED <<params, i, loopvars, heap, busvars, exit_code, ghost,
                   trace>>

\* sd_bus_open_user succeeds; the counters are reset and the mode chosen
Connect ==
    /\ pc = "open"
    /\ ret' \in OkRets
    /\ completed_requests' = 0
    /\ failed_requests' = 0
    /\ pc' = IF concurrent = 1 THEN "seq" ELSE "outer"
    /\ ev' = NoEvent
    /\ UNCHANGED <<params, i, loopvars, heap, busvars, exit_code, ghost, trace>>

----------------------------------------------------------------------------
\* Sequential mode (concurrent == 1)

\* seq_check without the goto on a non-zero status: the loop goes on
seq_check_nostatus(o, nb, okr) ==
    IF o.kind = "error" THEN [ok |-> FALSE, ret |-> -1]
    ELSE IF o.kind = "badmsg" THEN [ok |-> FALSE, ret |-> -1]
    ELSE IF o.kind = "noarray" THEN [ok |-> FALSE, ret |-> -1]
    ELSE IF o.status = 0 /\ o.len # nb THEN [ok |-> FALSE, ret |-> -1]
    ELSE [ok |-> TRUE, ret |-> okr]

\* One iteration of the sequential loop on outcome o of sd_bus_call_method:
\* whether the iteration passes, and the value left in ret.  okr is the
\* non-negative value the last successful sd-bus function returned.
seq_check(o, nb, okr) ==
    IF o.kind = "error" THEN [ok |-> FALSE, ret |-> -1]
    ELSE IF o.kind = "badmsg" THEN [ok |-> FALSE, ret |-> -1]
    ELSE IF o.status # 0 THEN [ok |-> FALSE, ret |-> okr]
    ELSE IF o.kind = "noarray" THEN [ok |-> FALSE, ret |-> -1]
    ELSE IF o.len # nb THEN [ok |-> FALSE, ret |-> -1]
    ELSE [ok |-> TRUE, ret |-> okr]

\* SeqCond that stops one iteration early
SeqCond_short(idx) == idx < iterations - 1

\* for (i = 0; i < iterations; i++)
SeqCond(idx) == idx < iterations

\* One iteration: blocking call, validation, report
SeqIteration ==
    /\ pc = "seq"
    /\ SeqCond(i)
    /\ \E o \in Outcomes, okr \in OkRets :
          LET r == seq_check(o, num_bytes, okr) IN
          /\ ret' = r.ret
          /\ IF r.ok
             THEN /\ i' = i + 1
                  /\ pc' = "seq"
             ELSE /\ i' = i
                  /\ pc' = "cleanup"
          /\ nbad' = nbad + (IF IsFailure(o, num_bytes) THEN 1 ELSE 0)
          /\ mismatch' = (mismatch \/ WrongLength(o, num_bytes))
    /\ sync_calls' = sync_calls + 1
    /\ ev' = NoEvent
    /\ UNCHANGED <<params, loopvars, counters, heap, busvars, exit_code,
                   fired, freed, fatal, submit_log, result, reordered>>

\* The loop is over: "Completed %d iterations successfully"
SeqDone ==
    /\ pc = "seq"
    /\ ~SeqCond(i)
    /\ pc' = "cleanup"
    /\ ev' = NoEvent
    /\ UNCHANGED <<params, ret, i, loopvars, counters, heap, busvars,
                   exit_code, ghost, trace>>

----------------------------------------------------------------------------
\* Pipelined mode (concurrent > 1)

\* LoopCond with && for ||: the loop ends while calls are in flight
LoopCond_and(sent, inflight) == sent < iterations /\ inflight > 0

\* while (requests_sent < iterations || in_flight > 0)
LoopCond(sent, inflight) == sent < iterations \/ inflight > 0

\* AdmitCond that keeps one slot of the window free
AdmitCond_under(sent, inflight) ==
    sent < iterations /\ inflight < concurrent - 1

\* AdmitCond with <= for <: one call too many is admitted
AdmitCond_le(sent, inflight) == sent < iterations /\ inflight <= concurrent

\* while (requests_sent < iterations && in_flight < concurrent)
AdmitCond(sent, inflight) == sent < iterations /\ inflight < concurrent

\* InFlightNow that leaves completed_requests out of the processed total
InFlightNow_nocompleted(sent, completed, failed) == sent - failed

\* InFlightNow that leaves failed_requests out of the processed total
InFlightNow_nofailed(sent, completed, failed) == sent - completed

\* in_flight = requests_sent - (completed_requests + failed_requests)
InFlightNow(sent, completed, failed) == sent - (completed + failed)

\* AfterProcess without the `continue` on r > 0
AfterProcess_nocontinue(r, inflight) ==
    IF inflight > 0 THEN "wait" ELSE "outer"

\* Where main goes after sd_bus_process returned r >= 0
AfterProcess(r, inflight) ==
    IF r > 0 THEN "outer"
    ELSE IF inflight > 0 THEN "wait"
    ELSE "outer"

\* Test of the outer loop
OuterTest ==
    /\ pc = "outer"
    /\ pc' = IF LoopCond(requests_sent, in_flight) THEN "inner" ELSE "summary"
    /\ ev' = NoEvent
    /\ UNCHANGED <<params, ret, i, loopvars, counters, heap, busvars,
                   exit_code, ghost, trace>>

\* Admission: the descriptor is allocated and the call submitted
Admit ==
    /\ pc = "inner"
    /\ AdmitCond(requests_sent, in_flight)
    /\ LET ctx == NewCtx(requests_sent + 1) IN
       /\ heap' = (ctx.request_id :> ctx) @@ heap
       /\ pending' = pending \cup {ctx.request_id}
       /\ submit_log' = Append(submit_log, ctx.request_id)
    /\ ret' \in OkRets
    /\ requests_sent' = requests_sent + 1
    /\ in_flight' = in_flight + 1
    /\ pc' = "inner"
    /\ ev' = NoEvent
    /\ UNCHANGED <<params, i, counters, ready, other, exit_code, ghost,
                   sync_calls, result, reordered>>

\* malloc returns NULL: ret = -ENOMEM, goto cleanup
AdmitNoMemory ==
    /\ pc = "inner"
    /\ AdmitCond(requests_sent, in_flight)
    /\ ret' = -ENOMEM
    /\ pc' = "cleanup"
    /\ fatal' = "nomem"
    /\ ev' = NoEvent
    /\ UNCHANGED <<params, i, loopvars, counters, heap, busvars, exit_code,
                   fired, freed, nbad, mismatch, trace>>

\* AdmitRejected that counts the rejected request in failed_requests
AdmitRejected_counts ==
    /\ pc = "inner"
    /\ AdmitCond(requests_sent, in_flight)
    /\ ret' \in ErrRets
    /\ freed' = [freed EXCEPT ![requests_sent + 1] = @ + 1]
    /\ failed_requests' = failed_requests + 1
    /\ pc' = "cleanup"
    /\ fatal' = "submit"
    /\ ev' = NoEvent
    /\ UNCHANGED <<params, i, loopvars, completed_requests, heap, busvars,
                   exit_code, fired, nbad, mismatch, trace>>

\* AdmitRejected that frees the descriptor and goes on to sd_bus_process
\* instead of leaving the loop
AdmitRejected_goeson ==
    /\ pc = "inner"
    /\ AdmitCond(requests_sent, in_flight)
    /\ ret' \in ErrRets
    /\ freed' = [freed EXCEPT ![requests_sent + 1] = @ + 1]
    /\ pc' = "process"
    /\ fatal' = "submit"
    /\ ev' = NoEvent
    /\ UNCHANGED <<params, i, loopvars, counters, heap, busvars, exit_code,
                   fired, nbad, mismatch, trace>>

\* sd_bus_call_method_async fails: free(ctx), goto cleanup
AdmitRejected ==
    /\ pc = "inner"
    /\ AdmitCond(requests_sent, in_flight)
    /\ ret' \in ErrRets
    /\ freed' = [freed EXCEPT ![requests_sent + 1] = @ + 1]
    /\ pc' = "cleanup"
    /\ fatal' = "submit"
    /\ ev' = NoEvent
    /\ UNCHANGED <<params, i, loopvars, counters, heap, busvars, exit_code,
                   fired, nbad, mismatch, trace>>

\* The window is full or nothing is left to submit: on to sd_bus_process
AdmitDone ==
    /\ pc = "inner"
    /\ ~AdmitCond(requests_sent, in_flight)
    /\ pc' = "process"
    /\ ev' = NoEvent
    /\ UNCHANGED <<params, ret, i, loopvars, counters, heap, busvars,
                   exit_code, ghost, trace>>

\* sd_bus_process fails: goto cleanup
ProcessError ==
    /\ pc = "process"
    /\ ret' \in ErrRets
    /\ pc' = "cleanup"
    /\ fatal' = "process"
    /\ ev' = NoEvent
    /\ UNCHANGED <<params, i, loopvars, counters, heap, busvars, exit_code,
                   fired, freed, nbad, mismatch, trace>>

\* sd_bus_process dispatches the outcome of one call to async_callback and
\* returns > 0
ProcessReply ==
    /\ pc = "process"
    /\ \E id \in ready, o \in Outcomes :
          LET cb == async_callback(o, heap[id]) IN
          /\ ready' = ready \ {id}
          /\ failed_requests' = failed_requests + cb.failed
          /\ completed_requests' = completed_requests + cb.completed
          /\ heap' = IF cb.free > 0
                     THEN [k \in DOMAIN heap \ {id} |-> heap[k]]
                     ELSE heap
          /\ freed' = [freed EXCEPT ![id] = @ + cb.free]
          /\ fired' = [fired EXCEPT ![id] = @ + 1]
          /\ ev' = [id |-> id, outcome |-> o, report |-> cb.report]
          /\ nbad' = nbad + (IF IsFailure(o, num_bytes) THEN 1 ELSE 0)
          /\ mismatch' = (mismatch \/ WrongLength(o, num_bytes))
          /\ result' = [result EXCEPT ![id] =
                            IF IsFailure(o, num_bytes) THEN "bad" ELSE "ok"]
          /\ reordered' = (reordered \/
                              \E k \in pending \cup ready : k < id)
    /\ ret' = 1
    /\ pc' = "update"
    /\ UNCHANGED <<params, i, loopvars, pending, other, exit_code,
                   fatal, sync_calls, submit_log>>

\* sd_bus_process handles bus work that is not a method reply, returns > 0
ProcessOther ==
    /\ pc = "process"
    /\ other > 0
    /\ other' = other - 1
    /\ ret' = 1
    /\ pc' = "update"
    /\ ev' = NoEvent
    /\ UNCHANGED <<params, i, loopvars, counters, heap, pending, ready,
                   exit_code, ghost, trace>>

\* sd_bus_process finds nothing to do, returns 0
ProcessIdle ==
    /\ pc = "process"
    /\ ready = {}
    /\ other = 0
    /\ ret' = 0
    /\ pc' = "update"
    /\ ev' = NoEvent
    /\ UNCHANGED <<params, i, loopvars, counters, heap, busvars,
                   exit_code, ghost, trace>>

\* After sd_bus_process returned >= 0: in_flight is recomputed from the
\* counters; main continues the loop if work was done, otherwise calls
\* sd_bus_wait if requests are in flight
Update ==
    /\ pc = "update"
    /\ in_flight' = InFlightNow(requests_sent, completed_requests,
                                failed_requests)
    /\ pc' = AfterProcess(ret, in_flight')
    /\ ev' = NoEvent
    /\ UNCHANGED <<params, ret, i, requests_sent, counters, heap, busvars,
                   exit_code, ghost, trace>>

\* sd_bus_wait returns: there is something to process
Wait ==
    /\ pc = "wait"
    /\ ready # {} \/ other > 0
    /\ ret' \in OkRets
    /\ pc' = "outer"
    /\ ev' = NoEvent
    /\ UNCHANGED <<params, i, loopvars, counters, heap, busvars, exit_code,
                   ghost, trace>>

\* WaitError that takes the error for an interruption and loops again
WaitError_retry ==
    /\ pc = "wait"
    /\ ret' \in ErrRets
    /\ pc' = "outer"
    /\ fatal' = "wait"
    /\ ev' = NoEvent
    /\ UNCHANGED <<params, i, loopvars, counters, heap, busvars, exit_code,
                   fired, freed, nbad, mismatch, trace>>

\* sd_bus_wait fails: goto cleanup
WaitError ==
    /\ pc = "wait"
    /\ ret' \in ErrRets
    /\ pc' = "cleanup"
    /\ fatal' = "wait"
    /\ ev' = NoEvent
    /\ UNCHANGED <<params, i, loopvars, counters, heap, busvars, exit_code,
                   fired, freed, nbad, mismatch, trace>>

\* SummaryRet that forgets ret = -1
SummaryRet_keep(r, failed) == r

\* ret after the summary line: -1 if a request failed
SummaryRet(r, failed) == IF failed > 0 THEN -1 ELSE r

\* The loop is over: summary line, ret = -1 if a request failed
Summary ==
    /\ pc = "summary"
    /\ ret' = SummaryRet(ret, failed_requests)
    /\ pc' = "cleanup"
    /\ ev' = NoEvent
    /\ UNCHANGED <<params, i, loopvars, counters, heap, busvars, exit_code,
                   ghost, trace>>

----------------------------------------------------------------------------
\* cleanup: the bus is released, with it the calls it still tracks; their
\* callbacks never run and nothing frees their descriptors.
Cleanup ==
    /\ pc = "cleanup"
    /\ exit_code' = ExitCode(ret)
    /\ pending' = {}
    /\ ready' = {}
    /\ pc' = "exit"
    /\ ev' = NoEvent
    /\ UNCHANGED <<params, ret, i, loopvars, counters, heap, other, ghost, trace>>

\* The bus obtains the outcome of a pending call: a reply arrives or the
\* call times out.
Deliver ==
    /\ pc # "exit"
    /\ \E id \in pending :
          /\ pending' = pending \ {id}
          /\ ready' = ready \cup {id}
    /\ UNCHANGED <<params, pc, ret, i, loopvars, counters, heap, other,
                   exit_code, ev, ghost, trace>>

\* Steps of main in which no sd-bus function and no allocation fails
MainOk ==
    \/ Connect
    \/ SeqIteration
    \/ SeqDone
    \/ OuterTest
    \/ Admit
    \/ AdmitDone
    \/ ProcessReply
    \/ ProcessOther
    \/ ProcessIdle
    \/ Update
    \/ Wait
    \/ Summary
    \/ Cleanup

\* Steps of main in which opening the bus, malloc, the submission,
\* sd_bus_process or sd_bus_wait fails
MainError ==
    \/ ConnectFail
    \/ AdmitNoMemory
    \/ AdmitRejected
    \/ ProcessError
    \/ WaitError

Next == MainOk \/ MainError \/ Deliver

Spec == Init /\ [][Next]_vars

\* main keeps running as long as a step is possible that does not rely on an
\* error, and the bus eventually has the outcome of every call.  Errors may
\* happen but nothing forces them.
FairSpec == Spec /\ WF_vars(MainOk) /\ WF_vars(Deliver)

TypeOK ==
    /\ iterations \in 1..MaxIterations
    /\ concurrent \in 1..MaxConcurrent
    /\ requests_sent \in 0..MaxIterations
    /\ pending \subseteq Ids
    /\ ready \subseteq Ids
    /\ ret \in {-ENOMEM, -1, 0, 1}
    /\ fatal \in {"none", "connect", "nomem", "submit", "process", "wait"}

----------------------------------------------------------------------------
\* Properties

Pipelined == concurrent > 1

\* Calls submitted whose callback has not run
Outstanding == pending \cup ready

\* C1: in pipelined mode the number of requests in flight, counted as
\* requests_sent - completed_requests - failed_requests, as the loop's
\* in_flight variable and as the calls the bus still tracks, never exceeds
\* concurrent.
C1_InFlightBounded ==
    Pipelined =>
        /\ in_flight <= concurrent
        /\ requests_sent - completed_requests - failed_requests <= concurrent
        /\ Cardinality(Outstanding) <= concurrent

\* The window is full while requests remain to be submitted
C1_Witness ==
    /\ Pipelined
    /\ pc = "process"
    /\ in_flight = concurrent
    /\ Cardinality(Outstanding) = concurrent
    /\ requests_sent < iterations

\* C2: when main runs and the bus eventually has the outcome of every
\* submitted call, main is never blocked in sd_bus_wait with no call left
\* whose outcome could arrive, and it eventually returns.
C2_Terminates ==
    /\ [](pc = "wait" => Outstanding # {})
    /\ <>(pc = "exit")

\* A pipelined run that ended normally after submitting every request
C2_Witness ==
    /\ Pipelined
    /\ pc = "exit"
    /\ fatal = "none"
    /\ iterations > concurrent
    /\ requests_sent = iterations

\* C3: when the pipelined loop ends without a fatal error every request has
\* been submitted and completed: requests_sent = iterations, in_flight = 0,
\* completed_requests + failed_requests = iterations, and the bus tracks no
\* call any more.
C3_NormalExitComplete ==
    (Pipelined /\ fatal = "none" /\ pc \in {"summary", "cleanup", "exit"}) =>
        /\ requests_sent = iterations
        /\ in_flight = 0
        /\ completed_requests + failed_requests = iterations
        /\ (pc # "exit" => Outstanding = {})
        /\ \A id \in 1..iterations : fired[id] = 1

\* The loop ended with successes and failures
C3_Witness ==
    /\ Pipelined
    /\ pc = "summary"
    /\ fatal = "none"
    /\ completed_requests > 0
    /\ failed_requests > 0

\* C4: every descriptor the loop created has its callback run exactly once
\* and is freed exactly once; none is freed twice, and when main returns
\* none is left on the heap, also when the run ended on a fatal error.
C4_DescriptorsOnce ==
    /\ \A id \in Ids : fired[id] <= 1 /\ freed[id] <= 1
    /\ pc = "exit" =>
          /\ DOMAIN heap = {}
          /\ \A id \in 1..requests_sent : fired[id] = 1 /\ freed[id] = 1

\* C5: the exit code is EXIT_SUCCESS exactly when every call succeeded and
\* no fatal error occurred, in both modes.
C5_ExitIffAllSucceeded ==
    pc = "exit" =>
        (exit_code = EXIT_SUCCESS <=> (nbad = 0 /\ fatal = "none"))

\* C6: a pipelined run without fatal error submits and completes all
\* `iterations` requests whatever the number nbad of failing ones, ends with
\* failed_requests = nbad and completed_requests = iterations - nbad, and
\* exits with EXIT_FAILURE exactly when nbad > 0.
C6_FailuresDoNotAbort ==
    (Pipelined /\ fatal = "none" /\ pc = "exit") =>
        /\ requests_sent = iterations
        /\ \A id \in 1..iterations : fired[id] = 1
        /\ failed_requests = nbad
        /\ completed_requests = iterations - nbad
        /\ (exit_code = EXIT_FAILURE <=> nbad > 0)

\* Some requests failed, others succeeded, and the run went to its end
C6_Witness ==
    /\ Pipelined
    /\ fatal = "none"
    /\ pc = "exit"
    /\ nbad > 0
    /\ nbad < iterations
    /\ exit_code = EXIT_FAILURE

\* C7: from the step in which sd_bus_call_method_async rejects request
\* requests_sent + 1 on, no request is submitted, sd_bus_process and
\* sd_bus_wait are not called, the counters, in_flight and the descriptors of
\* the requests already submitted stay as they are, and main returns
\* EXIT_FAILURE.
C7_RejectedSubmissionAborts ==
    [][fatal' = "submit" =>
          /\ requests_sent' = requests_sent
          /\ in_flight' = in_flight
          /\ counters' = counters
          /\ fired' = fired
          /\ heap' = heap
          /\ pc' \in {"cleanup", "exit"}
          /\ (pc' = "exit" => exit_code' = EXIT_FAILURE)]_vars

\* A submission was rejected after at least one request was submitted
C7_Witness ==
    /\ fatal = "submit"
    /\ pc = "exit"
    /\ requests_sent >= 1
    /\ requests_sent < iterations
    /\ DOMAIN heap # {}

\* C8: a run that received a reply of the wrong length, whatever its
\* status, never counts all its requests as completed and returns
\* EXIT_FAILURE.
C8_WrongLengthFails ==
    (mismatch /\ pc = "exit") =>
        /\ exit_code = EXIT_FAILURE
        /\ completed_requests < iterations

\* C9: one invocation of async_callback adds one to exactly one counter:
\* to completed_requests when the outcome is a reply with status 0 and the
\* expected length, to failed_requests for every other outcome.
C9_HandlerCountsOnce ==
    [][fired' # fired =>
          LET o == ev'.outcome IN
          IF o.kind = "reply" /\ o.status = 0 /\ o.len = num_bytes
          THEN /\ completed_requests' = completed_requests + 1
               /\ failed_requests' = failed_requests
          ELSE /\ failed_requests' = failed_requests + 1
               /\ completed_requests' = completed_requests]_vars

\* The callback has just handled a reply with status 0 and the wrong length
C9_Witness ==
    /\ ev.outcome.kind = "reply"
    /\ ev.outcome.status = 0
    /\ ev.outcome.len # num_bytes
    /\ failed_requests >= 1
    /\ completed_requests >= 1

\* Requests that succeeded: the sequential loop counts them in i, the
\* pipelined loop in completed_requests
RunCompleted == IF concurrent = 1 THEN i ELSE completed_requests

\* Requests that failed: the sequential loop stops at the first one
RunFailed ==
    IF concurrent = 1
    THEN (IF i < iterations THEN 1 ELSE 0)
    ELSE failed_requests

C11_SeqStopsAtFirstFailure ==
    (concurrent = 1 /\ nbad >= 1) =>
        /\ nbad = 1
        /\ pc \in {"cleanup", "exit"}
        /\ i < iterations
        /\ sync_calls = i + 1

\* A sequential run whose second call failed with a third one left
C11_Witness ==
    /\ concurrent = 1
    /\ pc = "exit"
    /\ nbad = 1
    /\ sync_calls = 2
    /\ iterations = 3

\* C12: in pipelined mode the j-th submitted call carries request_id j, so
\* identities are submitted in the order 1, 2, ... without gap or repeat,
\* and unless a fatal error occurs all of 1..iterations are eventually
\* submitted.
C12_SubmittedInOrder ==
    /\ [](Pipelined =>
            /\ Len(submit_log) = requests_sent
            /\ \A j \in 1..Len(submit_log) : submit_log[j] = j)
    /\ <>(~Pipelined \/ fatal # "none" \/ requests_sent = iterations)

\* Every request of a batch larger than the window has been submitted
C12_Witness ==
    /\ Pipelined
    /\ fatal = "none"
    /\ iterations > concurrent
    /\ Len(submit_log) = iterations

\* Requests whose callback was given a successful / a failing outcome
OkIds == {id \in Ids : result[id] = "ok"}
BadIds == {id \in Ids : result[id] = "bad"}

\* C13: whatever the order in which the outcomes are dispatched, the
\* pipelined loop terminates, and when it ends without fatal error
\* completed_requests and failed_requests are the numbers of requests with a
\* successful and with a failing outcome: they depend on the outcome of each
\* request only, not on the order of completion.
C13_OrderIndependent ==
    /\ []((Pipelined /\ fatal = "none"
               /\ pc \in {"summary", "cleanup", "exit"}) =>
            /\ completed_requests = Cardinality(OkIds)
            /\ failed_requests = Cardinality(BadIds)
            /\ OkIds \cup BadIds = 1..iterations)
    /\ <>(pc = "exit")

\* A run that ended normally although a request completed before one
\* submitted earlier, with successes and failures
C13_Witness ==
    /\ Pipelined
    /\ fatal = "none"
    /\ pc = "exit"
    /\ reordered
    /\ result[1] = "bad"
    /\ result[2] = "ok"

\* C14: main enters sd_bus_wait only from the evaluation that follows an
\* sd_bus_process call that returned 0, and only with in_flight > 0; while
\* it is blocked in sd_bus_wait, ret is that 0 and in_flight is positive.
C14_WaitOnlyWhenIdle ==
    /\ [][(pc' = "wait" /\ pc # "wait") =>
             (pc = "update" /\ ret = 0 /\ in_flight' > 0)]_vars
    /\ [](pc = "wait" => (ret = 0 /\ in_flight > 0 /\ Outstanding # {}))

\* main blocks with a full window while requests remain to be submitted
C14_Witness ==
    /\ pc = "wait"
    /\ in_flight = concurrent
    /\ requests_sent < iterations
    /\ ready = {}

\* C15: whenever main is in sd_bus_wait the window is full or every request
\* has been submitted.
C15_WaitOnlyWithFullWindow ==
    pc = "wait" =>
        \/ in_flight = concurrent /\ Cardinality(Outstanding) = concurrent
        \/ requests_sent = iterations

\* main blocks with a partly filled window after the last submission
C15_Witness ==
    /\ pc = "wait"
    /\ requests_sent = iterations
    /\ in_flight < concurrent
    /\ completed_requests + failed_requests > 0

\* C16: completed_requests and failed_requests change only in a step of
\* sd_bus_process that runs async_callback, and they never decrease.
C16_CountersOnlyInCallback ==
    [][/\ counters' # counters => (pc = "process" /\ fired' # fired)
       /\ completed_requests' >= completed_requests
       /\ failed_requests' >= failed_requests]_vars

\* Callbacks have counted a success and a failure, and more was submitted
\* afterwards
C16_Witness ==
    /\ pc = "inner"
    /\ completed_requests >= 1
    /\ failed_requests >= 1
    /\ requests_sent = 3

\* C17: with concurrent = 1 main only issues blocking calls: nothing is
\* ever submitted asynchronously, sd_bus_process and sd_bus_wait are never
\* reached, every call issued so far has returned and passed validation
\* when the next one is issued, and a run in which no call fails issues
\* exactly `iterations` calls and returns EXIT_SUCCESS.
C17_SequentialOnly ==
    concurrent = 1 =>
        /\ pc \in {"open", "seq", "cleanup", "exit"}
        /\ requests_sent = 0
        /\ in_flight = 0
        /\ submit_log = << >>
        /\ Outstanding = {}
        /\ DOMAIN heap = {}
        /\ sync_calls <= iterations
        /\ (pc = "seq" => sync_calls = i /\ nbad = 0)
        /\ ((pc = "exit" /\ nbad = 0 /\ fatal = "none") =>
               (sync_calls = iterations /\ exit_code = EXIT_SUCCESS))

\* A sequential run of three calls that all succeeded
C17_Witness ==
    /\ concurrent = 1
    /\ pc = "exit"
    /\ sync_calls = 3
    /\ nbad = 0
    /\ exit_code = EXIT_SUCCESS

\* The outcome is a reply with status 0 and the expected length
IsSuccess(o) == o.kind = "reply" /\ o.status = 0 /\ o.len = num_bytes

\* C18 as claimed: on a successful reply async_callback reports the payload
\* whenever total_iterations = 1, whatever log_to_stdout is; otherwise the
\* byte count if log_to_stdout is set and nothing if it is not.
C18_ReportOnSuccess_claimed ==
    (ev.id # 0 /\ IsSuccess(ev.outcome)) =>
        ev.report =
            IF iterations = 1
            THEN [stream |-> "stdout", msg |-> "octets", n |-> ev.outcome.len]
            ELSE IF log_to_stdout # 0
            THEN [stream |-> "stdout", msg |-> "received",
                  n |-> ev.outcome.len]
            ELSE NoReport

\* C18 amended: on a successful reply async_callback reports nothing when
\* log_to_stdout is 0; when it is set, it reports the payload if
\* total_iterations = 1 and the byte count otherwise.
C18_ReportOnSuccess ==
    (ev.id # 0 /\ IsSuccess(ev.outcome)) =>
        ev.report =
            IF log_to_stdout = 0 THEN NoReport
            ELSE IF iterations = 1
            THEN [stream |-> "stdout", msg |-> "octets", n |-> ev.outcome.len]
            ELSE [stream |-> "stdout", msg |-> "received",
                  n |-> ev.outcome.len]

\* The callback has just handled the successful reply of a quiet run of one
\* request
C18_Witness ==
    /\ ev.id = 1
    /\ IsSuccess(ev.outcome)
    /\ iterations = 1
    /\ log_to_stdout = 0
    /\ completed_requests = 1

\* C19: when sd_bus_open_user fails no call is issued or submitted in
\* either mode, the counters stay 0, main goes straight to cleanup and
\* returns EXIT_FAILURE.
C19_ConnectFailureAborts ==
    fatal = "connect" =>
        /\ pc \in {"cleanup", "exit"}
        /\ sync_calls = 0
        /\ requests_sent = 0
        /\ submit_log = << >>
        /\ completed_requests = 0
        /\ failed_requests = 0
        /\ (pc = "exit" => exit_code = EXIT_FAILURE)

\* main has returned after a failed connection
C19_Witness ==
    /\ fatal = "connect"
    /\ pc = "exit"
    /\ exit_code = EXIT_FAILURE
    /\ iterations > 1

\* C20: at the outer loop test, at the admission test and at the test before
\* sd_bus_wait the variable in_flight equals
\* requests_sent - completed_requests - failed_requests, and always
\* 0 <= completed_requests + failed_requests <= requests_sent <= iterations.
C20_InFlightConsistent ==
    /\ pc \in {"outer", "inner", "process", "wait", "summary"} =>
          in_flight = requests_sent - completed_requests - failed_requests
    /\ 0 <= completed_requests + failed_requests
    /\ completed_requests + failed_requests <= requests_sent
    /\ requests_sent <= iterations

\* At the admission test, after a recomputation that followed callbacks and
\* a local increment
C20_Witness ==
    /\ pc = "inner"
    /\ completed_requests + failed_requests >= 1
    /\ requests_sent = 3
    /\ in_flight = 2

\* C21: from the step in which sd_bus_process or sd_bus_wait returns an
\* error on, main goes to cleanup and returns EXIT_FAILURE: no request is
\* submitted, the summary is not reached, no callback runs any more and the
\* counters stay as they are, so requests in flight at that moment are never
\* completed.
C21_ProcessOrWaitErrorAborts ==
    [][fatal' \in {"process", "wait"} =>
          /\ pc' \in {"cleanup", "exit"}
          /\ requests_sent' = requests_sent
          /\ submit_log' = submit_log
          /\ counters' = counters
          /\ fired' = fired
          /\ result' = result
          /\ (pc' = "exit" => exit_code' = EXIT_FAILURE)]_vars

\* main returned after an sd_bus_wait error with a request never completed
\* and another never submitted
C21_Witness ==
    /\ fatal = "wait"
    /\ pc = "exit"
    /\ exit_code = EXIT_FAILURE
    /\ completed_requests + failed_requests < requests_sent
    /\ requests_sent < iterations
    /\ \E id \in 1..requests_sent : fired[id] = 0

====
